---- MODULE Spec2Model ----
(***************************************************************************)
(* Message dispatch and connection lifecycle of websocket_handler.py:      *)
(* WebSocketHandler.handle_data, WebSocketHandlerServer.handle and         *)
(* broadcast_json, WebSocketHandlerClient.start.                           *)
(*                                                                         *)
(* asyncio runs one task per handle()/start() call and switches tasks only *)
(* at an await that suspends, so one action below is the code a task runs  *)
(* from one suspension point to the next.                                  *)
(***************************************************************************)
EXTENDS Integers, Sequences, FiniteSets, TLC

\* ------------------------------------------------------------------ bounds
MaxConn == 2        \* server connections handed to handle()
MaxFrames == 2      \* inbound frames delivered to the server, all connections
MaxClientFrames == 2 \* inbound frames delivered to the client per start()
MaxRegs == 2        \* registrations made before the program serves or connects

Conns == 1..MaxConn

None == "None"
NoOutcome == [conn |-> 0, frame |-> 0]   \* Python None as a handler outcome

\* --------------------------------------------------------------- variables
VARIABLES
    data_handler,   \* registry dict: command -> handler name
    regs,           \* history: the registrations made so far, in order
    log,            \* the logger calls made by the last step
    rx,             \* the frame taken from a connection by the last step
    websockets,     \* server: self.websockets, a list of connections
    pc,             \* server: where each handle(ws) task is suspended
    closed,         \* server: ws.closed of each connection
    ws_data,        \* server: local ws_data of each handle(ws)
    cur,            \* server: the handler a handle(ws) task is running
    bidx,           \* server: index of the list iterator of a running broadcast
    nframes,        \* server: frames delivered so far, all connections
    frameno,        \* server: number of the frame a connection received last
    \* history of the server, read by the properties only
    td,             \* steps of the finally block run so far, per connection
    disc_arg,       \* argument on_disconnect was invoked with, per connection
    raised,         \* whether an exception left the try block of handle(ws)
    inflight,       \* handlers started and not yet completed, per connection
    hframe,         \* number of the frame the running handler was called for
    lastres,        \* frame of the last dispatch that returned an outcome
    onconn,         \* on_connect invocations, per connection
    bsnap,          \* self.websockets when the connection's broadcast was called
    bopen,          \* the connections of bsnap that were not closed then
    bsent,          \* connections the broadcast attempted a send to, in order
    bstate,         \* "none", "running", "returned", "raised"
    \* client
    c_pc,           \* where the start() task is suspended
    c_ws,           \* self.ws
    c_wsClosed,     \* whether the client's connection is closed
    c_sessClosed,   \* whether self.session is closed
    c_exc,          \* the exception propagating in start(), None if none
    c_cur,          \* the handler start() is running
    c_nframes,      \* frames delivered to the client so far
    \* history of the client, read by the properties only
    c_cleanup,      \* steps of the finally block run so far
    c_discarg,      \* argument on_disconnect was invoked with
    c_onconn,       \* on_connect invocations
    c_ndisp,        \* handle_data calls
    c_inflight,     \* handlers started and not yet completed
    c_hframe,       \* number of the frame the running handler was called for
    c_how,          \* how the try block was left
    c_warned,       \* logger.warn calls of the except clause
    c_result        \* how start() ended: "none", "returned", "raised"

regvars == <<data_handler, regs>>
bhist == <<bsnap, bopen, bsent, bstate>>
svars == <<websockets, pc, closed, ws_data, cur, bidx, nframes, frameno,
           td, disc_arg, raised, inflight, hframe, lastres, onconn, bhist>>
cvars == <<c_pc, c_ws, c_wsClosed, c_sessClosed, c_exc, c_cur, c_nframes,
           c_cleanup, c_discarg, c_onconn, c_ndisp, c_inflight, c_hframe,
           c_how, c_warned, c_result>>
vars == <<regvars, log, rx, svars, cvars>>

\* ------------------------------------------------------- messages, registry
command_key == "type"

\* Text payloads a peer can put in a frame.
P_message == "{\"type\": \"message\"}"
P_result == "{\"type\": \"result\"}"
P_boom == "{\"type\": \"boom\"}"
P_nohandler == "{\"type\": \"nohandler\"}"
P_notype == "{\"notype\": 1}"
P_array == "[1]"
P_bad == "not json"

Payloads == {P_message, P_result, P_boom, P_nohandler, P_notype, P_array, P_bad}

\* json.loads: the decoded value, or JSONDecodeError (ok = FALSE).
json_loads(text) ==
    CASE text = P_message -> [ok |-> TRUE, isdict |-> TRUE, obj |-> [type |-> "message"]]
      [] text = P_result -> [ok |-> TRUE, isdict |-> TRUE, obj |-> [type |-> "result"]]
      [] text = P_boom -> [ok |-> TRUE, isdict |-> TRUE, obj |-> [type |-> "boom"]]
      [] text = P_nohandler -> [ok |-> TRUE, isdict |-> TRUE, obj |-> [type |-> "nohandler"]]
      [] text = P_notype -> [ok |-> TRUE, isdict |-> TRUE, obj |-> [notype |-> "1"]]
      [] text = P_array -> [ok |-> TRUE, isdict |-> FALSE, obj |-> <<"1">>]
      [] OTHER -> [ok |-> FALSE, isdict |-> FALSE, obj |-> <<>>]

\* dict.get(key): the value, or None when the key is absent.
DictGet(data, key) == IF key \in DOMAIN data THEN data[key] ELSE None

\* The handlers registered at program start.  "h_message" is Server.message of
\* the example server (it broadcasts the message and returns None);
\* "h_result" returns a non-empty outcome, "h_boom" raises.
Registry == [message |-> "h_message", result |-> "h_result", boom |-> "h_boom"]

\* handle_data up to the call of the handler: the command read from the
\* message and the handler found for it (None: unknown command, the error
\* branch that logs and returns None).
Lookup(data) ==
    LET cmd == DictGet(data, command_key)
    IN  [cmd |-> cmd,
         handler |-> IF cmd \in DOMAIN data_handler THEN data_handler[cmd] ELSE None]

\* Variant of Dispatch: handle_data indexes the registry without the
\* `cmd not in` test, so an unknown command raises KeyError.
DispatchKeyError(text) ==
    LET d == json_loads(text)
    IN  IF ~d.ok \/ ~d.isdict THEN [kind |-> "raise", handler |-> None]
        ELSE LET l == Lookup(d.obj)
             IN  IF l.handler = None THEN [kind |-> "raise", handler |-> None]
                 ELSE [kind |-> "call", handler |-> l.handler]

\* What a frame's text leads to in the receive loop:
\*   "raise"   json.loads or data.get raised,
\*   "unknown" handle_data logged the unknown command and returned None,
\*   "call"    handle_data logged and called the handler.
Dispatch(text) ==
    LET d == json_loads(text)
    IN  IF ~d.ok \/ ~d.isdict THEN [kind |-> "raise", handler |-> None]
        ELSE LET l == Lookup(d.obj)
             IN  IF l.handler = None THEN [kind |-> "unknown", handler |-> None]
                 ELSE [kind |-> "call", handler |-> l.handler]

\* ------------------------------------------------------------ list helpers
InList(list, x) == \E i \in 1..Len(list) : list[i] = x

\* Variant of ListRemove: list.pop(), which removes the last entry.
ListRemoveLast(list, x) == SubSeq(list, 1, Len(list) - 1)

\* list.remove(x): the list without the first occurrence of x.
ListRemove(list, x) ==
    LET i == CHOOSE k \in 1..Len(list) :
                 list[k] = x /\ \A j \in 1..(k - 1) : list[j] # x
    IN  SubSeq(list, 1, i - 1) \o SubSeq(list, i + 1, Len(list))

\* Variant of NextOpen: the loop has no `if not ws.closed` test.
NextAny(list, isClosed, i) == IF i > Len(list) THEN Len(list) + 1 ELSE i

\* The first index from i on whose connection is not closed, Len + 1 if none:
\* where the loop of broadcast_json reaches its next send_json.
NextOpen(list, isClosed, i) ==
    LET open == {k \in i..Len(list) : ~isClosed[list[k]]}
    IN  IF open = {} THEN Len(list) + 1
        ELSE CHOOSE k \in open : \A j \in open : k <= j

\* One logger call: who logged, at which level, which message.
LogCall(who, level, msg) == <<[who |-> who, level |-> level, msg |-> msg]>>

\* One frame taken from a connection: by whom, its type, its payload.
Rx(who, type, data) == <<[who |-> who, type |-> type, data |-> data]>>

\* ------------------------------------------------- create_data_handler
\* The handler functions a program defines, named by identity.
Funcs == {"h_message", "h_result", "h_boom"}

\* f.__name__ of a handler function.
FuncName(f) ==
    CASE f = "h_message" -> "message"
      [] f = "h_result" -> "result"
      [] f = "h_boom" -> "boom"

\* The names a program passes to the decorator explicitly.
Names == {"message", "result", "nohandler"}

\* The argument of data_handler(name_or_func): a string, or the function
\* itself when the decorator is applied bare.
StrArg(name) == [isstr |-> TRUE, val |-> name]
FuncArg(f) == [isstr |-> FALSE, val |-> f]

\* Variant of DictSet: dict.setdefault(k, v), which keeps an existing entry.
DictSetDefault(d, k, v) ==
    [x \in DOMAIN d \cup {k} |-> IF x \in DOMAIN d THEN d[x] ELSE v]

\* d[k] = v: the entry is added or replaced, every other entry is kept.
DictSet(d, k, v) ==
    [x \in DOMAIN d \cup {k} |-> IF x = k THEN v ELSE d[x]]

\* Variant of RegKey: the key is always the function's own name.
RegKeyFuncName(name_or_func, f) == FuncName(f)

\* The registry key data_handler(name_or_func) writes for the function f it
\* decorates: name_or_func.__name__ when name_or_func is no string (it is f
\* then), else name_or_func itself.
RegKey(name_or_func, f) ==
    IF ~name_or_func.isstr THEN FuncName(name_or_func.val) ELSE name_or_func.val

\* An empty dict.
EmptyDict == [x \in {} |-> None]

\* The registrations that build Registry: three bare decorators.
RegistryRegs ==
    <<[name_or_func |-> FuncArg("h_message"), f |-> "h_message"],
      [name_or_func |-> FuncArg("h_result"), f |-> "h_result"],
      [name_or_func |-> FuncArg("h_boom"), f |-> "h_boom"]>>

\* ------------------------------------------------------------------- Init
Client == 0

\* The state after construction, registry apart.
InitRest ==
    /\ log = <<>>
    /\ rx = <<>>
    /\ websockets = <<>>
    /\ pc = [c \in Conns |-> "idle"]
    /\ closed = [c \in Conns |-> FALSE]
    /\ ws_data = [c \in Conns |-> NoOutcome]
    /\ cur = [c \in Conns |-> None]
    /\ bidx = [c \in Conns |-> 0]
    /\ nframes = 0
    /\ frameno = [c \in Conns |-> 0]
    /\ td = [c \in Conns |-> <<>>]
    /\ disc_arg = [c \in Conns |-> None]
    /\ raised = [c \in Conns |-> FALSE]
    /\ inflight = [c \in Conns |-> 0]
    /\ hframe = [c \in Conns |-> 0]
    /\ lastres = [c \in Conns |-> 0]
    /\ onconn = [c \in Conns |-> 0]
    /\ bsnap = [c \in Conns |-> <<>>]
    /\ bopen = [c \in Conns |-> {}]
    /\ bsent = [c \in Conns |-> <<>>]
    /\ bstate = [c \in Conns |-> "none"]
    /\ c_pc = "idle"
    /\ c_ws = None
    /\ c_wsClosed = FALSE
    /\ c_sessClosed = FALSE
    /\ c_exc = None
    /\ c_cur = None
    /\ c_nframes = 0
    /\ c_cleanup = <<>>
    /\ c_discarg = None
    /\ c_onconn = 0
    /\ c_ndisp = 0
    /\ c_inflight = 0
    /\ c_hframe = 0
    /\ c_how = "none"
    /\ c_warned = 0
    /\ c_result = "none"

\* The example programs: the registry is filled when the module is loaded.
Init ==
    /\ data_handler = Registry
    /\ regs = RegistryRegs
    /\ InitRest

\* A program whose registry is still empty: HANDLER_DICT = {}.
RegInit ==
    /\ data_handler = EmptyDict
    /\ regs = <<>>
    /\ InitRest

\* ------------------------------------------------------------ server: handle
\* Variant of Finally: the cleanup follows the loop instead of standing in a
\* finally block, so an exception skips it.
FinallyOnNormalExitOnly(c, exc) ==
    IF exc
      THEN /\ raised' = [raised EXCEPT ![c] = TRUE]
           /\ pc' = [pc EXCEPT ![c] = "done"]
           /\ UNCHANGED <<websockets, closed, td, disc_arg>>
      ELSE /\ websockets' = ListRemove(websockets, c)
           /\ raised' = [raised EXCEPT ![c] = exc]
           /\ closed' = [closed EXCEPT ![c] = TRUE]
           /\ IF closed[c]
                THEN /\ td' = [td EXCEPT ![c] = <<"remove", "on_disconnect">>]
                     /\ disc_arg' = [disc_arg EXCEPT ![c] = ws_data[c]]
                     /\ pc' = [pc EXCEPT ![c] = "done"]
                ELSE /\ td' = [td EXCEPT ![c] = <<"remove", "close">>]
                     /\ disc_arg' = disc_arg
                     /\ pc' = [pc EXCEPT ![c] = "close"]

\* Variant of Finally: `await ws.close()` stands before websockets.remove(ws),
\* so an open connection stays in the list while its close is awaited.
FinallyCloseBeforeRemove(c, exc) ==
    /\ raised' = [raised EXCEPT ![c] = exc]
    /\ closed' = [closed EXCEPT ![c] = TRUE]
    /\ IF closed[c]
         THEN /\ websockets' = ListRemove(websockets, c)
              /\ td' = [td EXCEPT ![c] = <<"remove", "on_disconnect">>]
              /\ disc_arg' = [disc_arg EXCEPT ![c] = ws_data[c]]
              /\ pc' = [pc EXCEPT ![c] = "done"]
         ELSE /\ websockets' = websockets
              /\ td' = [td EXCEPT ![c] = <<"close">>]
              /\ disc_arg' = disc_arg
              /\ pc' = [pc EXCEPT ![c] = "close"]

\* The finally block of handle(ws), from the point the try block is left to
\* the first await that suspends: websockets.remove(ws), then either
\* `await ws.close()` or, when ws is closed already, on_disconnect(ws_data),
\* the last statement of handle().  exc: an exception is propagating.
Finally(c, exc) ==
    IF ~InList(websockets, c)
      THEN \* list.remove raises ValueError: the rest of the block is skipped
           /\ raised' = [raised EXCEPT ![c] = TRUE]
           /\ pc' = [pc EXCEPT ![c] = "done"]
           /\ UNCHANGED <<websockets, closed, td, disc_arg>>
      ELSE /\ websockets' = ListRemove(websockets, c)
           /\ raised' = [raised EXCEPT ![c] = exc]
           /\ closed' = [closed EXCEPT ![c] = TRUE]
           /\ IF closed[c]
                THEN /\ td' = [td EXCEPT ![c] = <<"remove", "on_disconnect">>]
                     /\ disc_arg' = [disc_arg EXCEPT ![c] = ws_data[c]]
                     /\ pc' = [pc EXCEPT ![c] = "done"]
                ELSE /\ td' = [td EXCEPT ![c] = <<"remove", "close">>]
                     /\ disc_arg' = disc_arg
                     /\ pc' = [pc EXCEPT ![c] = "close"]

\* The record of the connection's last broadcast is dropped at the next step
\* of its handle() task.
ForgetBroadcast(c) ==
    /\ bsnap' = [bsnap EXCEPT ![c] = <<>>]
    /\ bopen' = [bopen EXCEPT ![c] = {}]
    /\ bsent' = [bsent EXCEPT ![c] = <<>>]
    /\ bstate' = [bstate EXCEPT ![c] = "none"]

\* Variant of Retain: `ws_data = ret` without the test.
RetainAlways(old, ret) == ret

\* `if ret: ws_data = ret`: the new value of ws_data after a dispatch that
\* returned ret.
Retain(old, ret) == IF ret # NoOutcome THEN ret ELSE old

\* Variant of Accept: on_connect(ws) is awaited before websockets.append(ws).
AcceptHookBeforeAppend(c) ==
    /\ pc[c] = "idle"
    /\ c_pc = "idle"
    /\ \A b \in Conns : b < c => pc[b] # "idle"
    /\ pc' = [pc EXCEPT ![c] = "on_connect"]
    /\ onconn' = [onconn EXCEPT ![c] = @ + 1]
    /\ log' = <<>>
    /\ rx' = <<>>
    /\ UNCHANGED <<regvars, lastres, websockets, closed, ws_data, cur, bidx, nframes,
                   frameno, td, disc_arg, raised, inflight, hframe, bhist, cvars>>

\* handle(ws) is called: ws_data = None, websockets.append(ws), on_connect(ws)
\* is called and awaited.  Connections are numbered in the order the HTTP layer
\* hands them over; a process that serves has not called the client's start().
Accept(c) ==
    /\ pc[c] = "idle"
    /\ c_pc = "idle"
    /\ \A b \in Conns : b < c => pc[b] # "idle"
    /\ websockets' = Append(websockets, c)
    /\ pc' = [pc EXCEPT ![c] = "on_connect"]
    /\ onconn' = [onconn EXCEPT ![c] = @ + 1]
    /\ log' = <<>>
    /\ rx' = <<>>
    /\ UNCHANGED <<regvars, lastres, closed, ws_data, cur, bidx, nframes, frameno,
                   td, disc_arg, raised, inflight, hframe, bhist, cvars>>

\* on_connect returns: the loop awaits the first frame.
OnConnectReturn(c) ==
    /\ pc[c] = "on_connect"
    /\ pc' = [pc EXCEPT ![c] = "recv"]
    /\ log' = <<>>
    /\ rx' = <<>>
    /\ UNCHANGED <<regvars, lastres, onconn, websockets, closed, ws_data, cur, bidx, nframes,
                   frameno, td, disc_arg, raised, inflight, hframe, bhist, cvars>>

\* on_connect (an overridable hook) raises: the finally block runs.
OnConnectRaise(c) ==
    /\ pc[c] = "on_connect"
    /\ Finally(c, TRUE)
    /\ log' = <<>>
    /\ rx' = <<>>
    /\ UNCHANGED <<regvars, lastres, onconn, ws_data, cur, bidx, nframes, frameno,
                   inflight, hframe, bhist, cvars>>

\* The transport marks the connection closed (the peer closed it, the
\* connection was lost, a heartbeat timed out) while its handle(ws) task is
\* suspended; the task learns of it at its next receive.
Drop(c) ==
    /\ pc[c] \in {"on_connect", "recv", "handler", "broadcast"}
    /\ ~closed[c]
    /\ closed' = [closed EXCEPT ![c] = TRUE]
    /\ log' = <<>>
    /\ rx' = <<>>
    /\ UNCHANGED <<regvars, lastres, onconn, websockets, pc, ws_data, cur, bidx, nframes,
                   frameno, td, disc_arg, raised, inflight, hframe, bhist, cvars>>

\* Variant of AwaitsFrame: the loop starts each handler as a task of its own
\* and takes the next frame without awaiting it.
AwaitsFrameAnytime(c) == pc[c] \in {"recv", "handler", "broadcast"}

\* Whether the loop of handle(ws) is at `async for msg in ws`, taking a frame.
AwaitsFrame(c) == pc[c] = "recv"

\* The stream ends (a CLOSE, CLOSING or CLOSED message): the loop is left and
\* the finally block runs.
RecvEnd(c) ==
    /\ AwaitsFrame(c)
    /\ Finally(c, FALSE)
    /\ ForgetBroadcast(c)
    /\ log' = <<>>
    /\ rx' = Rx(c, "CLOSE", "")
    /\ UNCHANGED <<regvars, lastres, onconn, ws_data, cur, bidx, nframes, frameno,
                   inflight, hframe, cvars>>

\* Variant of RecvError: the error is logged and a `break` ends the loop.
RecvErrorEndsLoop(c) ==
    /\ AwaitsFrame(c)
    /\ ~closed[c]
    /\ nframes < MaxFrames
    /\ nframes' = nframes + 1
    /\ frameno' = [frameno EXCEPT ![c] = @ + 1]
    /\ log' = <<[who |-> c, level |-> "error",
                 msg |-> "WS connection closed with exception"]>>
    /\ rx' = <<[who |-> c, type |-> "ERROR", data |-> ""]>>
    /\ bsnap' = [bsnap EXCEPT ![c] = <<>>]
    /\ bopen' = [bopen EXCEPT ![c] = {}]
    /\ bsent' = [bsent EXCEPT ![c] = <<>>]
    /\ bstate' = [bstate EXCEPT ![c] = "none"]
    /\ websockets' = ListRemove(websockets, c)
    /\ closed' = [closed EXCEPT ![c] = TRUE]
    /\ td' = [td EXCEPT ![c] = <<"remove", "close">>]
    /\ pc' = [pc EXCEPT ![c] = "close"]
    /\ UNCHANGED <<regvars, lastres, onconn, ws_data, cur, bidx, disc_arg, raised,
                   inflight, hframe, cvars>>

\* A frame of type ERROR: logged, the loop goes on.
RecvError(c) ==
    /\ AwaitsFrame(c)
    /\ ~closed[c]
    /\ nframes < MaxFrames
    /\ nframes' = nframes + 1
    /\ frameno' = [frameno EXCEPT ![c] = @ + 1]
    /\ log' = LogCall(c, "error", "WS connection closed with exception")
    /\ rx' = Rx(c, "ERROR", "")
    /\ ForgetBroadcast(c)
    /\ UNCHANGED <<regvars, lastres, onconn, websockets, pc, closed, ws_data, cur, bidx,
                   td, disc_arg, raised, inflight, hframe, cvars>>

\* A text frame that cannot be dispatched: json.loads raises, or the decoded
\* value is no dict and data.get raises.  The finally block runs.
RecvBadText(c) ==
    /\ AwaitsFrame(c)
    /\ ~closed[c]
    /\ nframes < MaxFrames
    /\ \E p \in Payloads :
           /\ Dispatch(p).kind = "raise"
           /\ rx' = Rx(c, "TEXT", p)
    /\ nframes' = nframes + 1
    /\ frameno' = [frameno EXCEPT ![c] = @ + 1]
    /\ Finally(c, TRUE)
    /\ ForgetBroadcast(c)
    /\ log' = <<>>
    /\ UNCHANGED <<regvars, lastres, onconn, ws_data, cur, bidx, inflight, hframe, cvars>>

\* Variant of RecvUnknown: the unknown command is logged and then ends the
\* loop.
RecvUnknownEndsLoop(c) ==
    /\ AwaitsFrame(c)
    /\ ~closed[c]
    /\ nframes < MaxFrames
    /\ \E p \in Payloads :
           /\ Dispatch(p).kind = "unknown"
           /\ rx' = Rx(c, "TEXT", p)
    /\ nframes' = nframes + 1
    /\ frameno' = [frameno EXCEPT ![c] = @ + 1]
    /\ log' = <<[who |-> c, level |-> "error", msg |-> "unknown command"]>>
    /\ bsnap' = [bsnap EXCEPT ![c] = <<>>]
    /\ bopen' = [bopen EXCEPT ![c] = {}]
    /\ bsent' = [bsent EXCEPT ![c] = <<>>]
    /\ bstate' = [bstate EXCEPT ![c] = "none"]
    /\ websockets' = ListRemove(websockets, c)
    /\ closed' = [closed EXCEPT ![c] = TRUE]
    /\ td' = [td EXCEPT ![c] = <<"remove", "close">>]
    /\ pc' = [pc EXCEPT ![c] = "close"]
    /\ UNCHANGED <<regvars, lastres, onconn, ws_data, cur, bidx, disc_arg, raised, inflight,
                   hframe, cvars>>

\* A text frame whose command is absent or not in the registry: handle_data
\* logs the error and returns None, `if ret` fails, the loop goes on.
RecvUnknown(c) ==
    /\ AwaitsFrame(c)
    /\ ~closed[c]
    /\ nframes < MaxFrames
    /\ \E p \in Payloads :
           /\ Dispatch(p).kind = "unknown"
           /\ rx' = Rx(c, "TEXT", p)
    /\ nframes' = nframes + 1
    /\ frameno' = [frameno EXCEPT ![c] = @ + 1]
    /\ log' = LogCall(c, "error", "unknown command")
    /\ ws_data' = [ws_data EXCEPT ![c] = Retain(@, NoOutcome)]
    /\ ForgetBroadcast(c)
    /\ UNCHANGED <<regvars, lastres, onconn, websockets, pc, closed, cur, bidx,
                   td, disc_arg, raised, inflight, hframe, cvars>>

\* A text frame with a registered command whose handler does not broadcast:
\* handle_data logs, calls the handler and awaits it.
RecvCall(c) ==
    /\ AwaitsFrame(c)
    /\ ~closed[c]
    /\ nframes < MaxFrames
    /\ \E p \in Payloads :
           /\ Dispatch(p).kind = "call"
           /\ Dispatch(p).handler # "h_message"
           /\ cur' = [cur EXCEPT ![c] = Dispatch(p).handler]
           /\ rx' = Rx(c, "TEXT", p)
    /\ nframes' = nframes + 1
    /\ frameno' = [frameno EXCEPT ![c] = @ + 1]
    /\ log' = LogCall(c, "info", "handle")
    /\ pc' = [pc EXCEPT ![c] = "handler"]
    /\ inflight' = [inflight EXCEPT ![c] = @ + 1]
    /\ hframe' = [hframe EXCEPT ![c] = frameno[c] + 1]
    /\ ForgetBroadcast(c)
    /\ UNCHANGED <<regvars, lastres, onconn, websockets, closed, ws_data, bidx,
                   td, disc_arg, raised, cvars>>

\* What a handler returns to handle_data, and so to handle(): the outcome of
\* "h_result" names the connection and the frame it was computed for.
HandlerOutcome(h, c, k) ==
    IF h = "h_result" THEN [conn |-> c, frame |-> k] ELSE NoOutcome

\* Variant of HandlerReturn: the outcome is kept in an attribute of the
\* handler object (self.ws_data), which all handle() tasks share.
HandlerReturnShared(c) ==
    /\ pc[c] = "handler"
    /\ cur[c] = "h_result"
    /\ ws_data' = [d \in Conns |-> [conn |-> c, frame |-> hframe[c]]]
    /\ lastres' = [lastres EXCEPT ![c] = hframe[c]]
    /\ pc' = [pc EXCEPT ![c] = "recv"]
    /\ cur' = [cur EXCEPT ![c] = None]
    /\ inflight' = [inflight EXCEPT ![c] = @ - 1]
    /\ hframe' = [hframe EXCEPT ![c] = 0]
    /\ log' = <<>>
    /\ rx' = <<>>
    /\ UNCHANGED <<regvars, onconn, websockets, closed, bidx, nframes, frameno,
                   td, disc_arg, raised, bhist, cvars>>

\* The handler returns ret: `if ret: ws_data = ret`, then the next frame.
HandlerReturn(c) ==
    /\ pc[c] = "handler"
    /\ cur[c] = "h_result"
    /\ LET ret == HandlerOutcome(cur[c], c, hframe[c])
       IN  /\ ws_data' = [ws_data EXCEPT ![c] = Retain(@, ret)]
           /\ lastres' = [lastres EXCEPT ![c] = IF ret # NoOutcome THEN hframe[c] ELSE @]
    /\ pc' = [pc EXCEPT ![c] = "recv"]
    /\ cur' = [cur EXCEPT ![c] = None]
    /\ inflight' = [inflight EXCEPT ![c] = @ - 1]
    /\ hframe' = [hframe EXCEPT ![c] = 0]
    /\ log' = <<>>
    /\ rx' = <<>>
    /\ UNCHANGED <<regvars, onconn, websockets, closed, bidx, nframes, frameno,
                   td, disc_arg, raised, bhist, cvars>>

\* The handler raises: handle_data does not catch it, the finally block runs.
HandlerRaise(c) ==
    /\ pc[c] = "handler"
    /\ cur[c] = "h_boom"
    /\ cur' = [cur EXCEPT ![c] = None]
    /\ inflight' = [inflight EXCEPT ![c] = @ - 1]
    /\ hframe' = [hframe EXCEPT ![c] = 0]
    /\ Finally(c, TRUE)
    /\ log' = <<>>
    /\ rx' = <<>>
    /\ UNCHANGED <<regvars, lastres, onconn, ws_data, bidx, nframes, frameno, bhist, cvars>>

\* ---------------------------------------------------- server: broadcast_json
\* Variant of BroadcastFrom: the loop returns after its first send.
BroadcastFirstOnly(c, i, sent, infl, hf) ==
    LET j == NextOpen(websockets, closed, i)
    IN  IF j > Len(websockets) \/ Len(sent) >= 1
          THEN /\ pc' = [pc EXCEPT ![c] = "recv"]
               /\ cur' = [cur EXCEPT ![c] = None]
               /\ bidx' = [bidx EXCEPT ![c] = 0]
               /\ bsent' = [bsent EXCEPT ![c] = sent]
               /\ bstate' = [bstate EXCEPT ![c] = "returned"]
               /\ inflight' = [inflight EXCEPT ![c] = infl - 1]
               /\ hframe' = [hframe EXCEPT ![c] = 0]
               /\ ws_data' = [ws_data EXCEPT ![c] =
                                 Retain(@, HandlerOutcome("h_message", c, hf))]
          ELSE /\ pc' = [pc EXCEPT ![c] = "broadcast"]
               /\ cur' = [cur EXCEPT ![c] = "h_message"]
               /\ bidx' = [bidx EXCEPT ![c] = j]
               /\ bsent' = [bsent EXCEPT ![c] = Append(sent, websockets[j])]
               /\ bstate' = [bstate EXCEPT ![c] = "running"]
               /\ inflight' = [inflight EXCEPT ![c] = infl]
               /\ hframe' = [hframe EXCEPT ![c] = hf]
               /\ ws_data' = ws_data

\* The loop `for ws in self.websockets` of a broadcast called by the handler of
\* connection c for frame hf, resumed at list index i with the sends `sent` made
\* and infl handlers in progress, run to its next suspension: closed
\* connections are passed over; at the first open one send_json is called and
\* awaited; past the end of the list the broadcast and the handler return
\* None, `if ret` fails and the loop of handle() awaits the next frame.
BroadcastFrom(c, i, sent, infl, hf) ==
    LET j == NextOpen(websockets, closed, i)
    IN  IF j > Len(websockets)
          THEN /\ pc' = [pc EXCEPT ![c] = "recv"]
               /\ cur' = [cur EXCEPT ![c] = None]
               /\ bidx' = [bidx EXCEPT ![c] = 0]
               /\ bsent' = [bsent EXCEPT ![c] = sent]
               /\ bstate' = [bstate EXCEPT ![c] = "returned"]
               /\ inflight' = [inflight EXCEPT ![c] = infl - 1]
               /\ hframe' = [hframe EXCEPT ![c] = 0]
               /\ ws_data' = [ws_data EXCEPT ![c] =
                                 Retain(@, HandlerOutcome("h_message", c, hf))]
          ELSE /\ pc' = [pc EXCEPT ![c] = "broadcast"]
               /\ cur' = [cur EXCEPT ![c] = "h_message"]
               /\ bidx' = [bidx EXCEPT ![c] = j]
               /\ bsent' = [bsent EXCEPT ![c] = Append(sent, websockets[j])]
               /\ bstate' = [bstate EXCEPT ![c] = "running"]
               /\ inflight' = [inflight EXCEPT ![c] = infl]
               /\ hframe' = [hframe EXCEPT ![c] = hf]
               /\ ws_data' = ws_data

\* A text frame whose handler is Server.message: handle_data logs and calls
\* it, it calls broadcast_json, which runs to its first send.
RecvBroadcast(c) ==
    /\ AwaitsFrame(c)
    /\ ~closed[c]
    /\ nframes < MaxFrames
    /\ \E p \in Payloads :
           /\ Dispatch(p).kind = "call"
           /\ Dispatch(p).handler = "h_message"
           /\ rx' = Rx(c, "TEXT", p)
    /\ nframes' = nframes + 1
    /\ frameno' = [frameno EXCEPT ![c] = @ + 1]
    /\ log' = LogCall(c, "info", "handle")
    /\ bsnap' = [bsnap EXCEPT ![c] = websockets]
    /\ bopen' = [bopen EXCEPT ![c] =
                    {websockets[k] : k \in {k \in 1..Len(websockets) : ~closed[websockets[k]]}}]
    /\ BroadcastFrom(c, 1, <<>>, inflight[c] + 1, frameno[c] + 1)
    /\ UNCHANGED <<regvars, lastres, onconn, websockets, closed,
                   td, disc_arg, raised, cvars>>

\* The awaited send_json completes: the loop goes on from the next index of
\* the list as it is now.
BroadcastSendOk(c) ==
    /\ pc[c] = "broadcast"
    /\ BroadcastFrom(c, bidx[c] + 1, bsent[c], inflight[c], hframe[c])
    /\ log' = <<>>
    /\ rx' = <<>>
    /\ UNCHANGED <<regvars, lastres, onconn, websockets, closed, nframes, frameno,
                   td, disc_arg, raised, bsnap, bopen, cvars>>

\* The awaited send_json raises: nothing in broadcast_json, the handler or
\* handle_data catches it, so it leaves the try block of handle().
BroadcastSendFail(c) ==
    /\ pc[c] = "broadcast"
    /\ bstate' = [bstate EXCEPT ![c] = "raised"]
    /\ bidx' = [bidx EXCEPT ![c] = 0]
    /\ cur' = [cur EXCEPT ![c] = None]
    /\ inflight' = [inflight EXCEPT ![c] = @ - 1]
    /\ hframe' = [hframe EXCEPT ![c] = 0]
    /\ Finally(c, TRUE)
    /\ log' = <<>>
    /\ rx' = <<>>
    /\ UNCHANGED <<regvars, lastres, onconn, ws_data, nframes, frameno,
                   bsnap, bopen, bsent, cvars>>

\* ------------------------------------------------ server: rest of the finally
\* `await ws.close()` completes: on_disconnect(ws_data) is called, the last
\* statement of handle().
CloseDone(c) ==
    /\ pc[c] = "close"
    /\ td' = [td EXCEPT ![c] = Append(@, "on_disconnect")]
    /\ disc_arg' = [disc_arg EXCEPT ![c] = ws_data[c]]
    /\ pc' = [pc EXCEPT ![c] = "done"]
    /\ ForgetBroadcast(c)
    /\ log' = <<>>
    /\ rx' = <<>>
    /\ UNCHANGED <<regvars, lastres, onconn, websockets, closed, ws_data, cur, bidx, nframes,
                   frameno, raised, inflight, hframe, cvars>>

\* ------------------------------------------------------------ client: start
\* Variant of ClientCatches: the clause names an exception the cancellation
\* is not an instance of.
ClientCatchesNothing(exc) == FALSE

\* The `except asyncio.exceptions.CancelledError` clause: what it catches.
ClientCatches(exc) == exc = "CancelledError"

\* Variant of ClientExceptFinally: the cleanup stands in the except clause, so
\* it runs only for the exception the clause catches.
ClientCleanupWhenCaught(exc) ==
    /\ log' = IF ClientCatches(exc)
                THEN <<[who |-> Client, level |-> "warn",
                        msg |-> "Keyboard Interrupt, exiting..."]>>
                ELSE <<>>
    /\ c_warned' = IF ClientCatches(exc) THEN c_warned + 1 ELSE c_warned
    /\ c_exc' = IF ClientCatches(exc) THEN None ELSE exc
    /\ IF ~ClientCatches(exc)
         THEN /\ c_cleanup' = <<>>
              /\ c_pc' = "done"
         ELSE IF c_ws # None
                THEN /\ c_cleanup' = <<"ws_close">>
                     /\ c_pc' = "ws_close"
                ELSE /\ c_cleanup' = <<"session_close">>
                     /\ c_pc' = "session_close"

\* Variant of ClientExceptFinally: the session is closed under `if self.ws`,
\* so without a connection only on_disconnect runs.
ClientSessionClosedWithWs(exc) ==
    /\ log' = IF ClientCatches(exc)
                THEN <<[who |-> Client, level |-> "warn",
                        msg |-> "Keyboard Interrupt, exiting..."]>>
                ELSE <<>>
    /\ c_warned' = IF ClientCatches(exc) THEN c_warned + 1 ELSE c_warned
    /\ c_exc' = IF ClientCatches(exc) THEN None ELSE exc
    /\ IF c_ws # None
         THEN /\ c_cleanup' = <<"ws_close">>
              /\ c_pc' = "ws_close"
         ELSE /\ c_cleanup' = <<"on_disconnect">>
              /\ c_pc' = "done"

\* The except clause and the finally block of start(), from the point the try
\* block is left with exception exc (None: left normally) to the first await
\* that suspends: the warning if the clause catches exc; then
\* `await self.ws.close()` if self.ws is set, else `await self.session.close()`
\* (self.session, made by __init__, is always set).
ClientExceptFinally(exc) ==
    /\ log' = IF ClientCatches(exc)
                THEN LogCall(Client, "warn", "Keyboard Interrupt, exiting...")
                ELSE <<>>
    /\ c_warned' = IF ClientCatches(exc) THEN c_warned + 1 ELSE c_warned
    /\ c_exc' = IF ClientCatches(exc) THEN None ELSE exc
    /\ IF c_ws # None
         THEN /\ c_cleanup' = <<"ws_close">>
              /\ c_pc' = "ws_close"
         ELSE /\ c_cleanup' = <<"session_close">>
              /\ c_pc' = "session_close"

\* The body of `async with ... as ws` is left, normally or with exc: the
\* context manager closes the connection before the exception goes on.
ClientLeaveBlock(how, exc) ==
    /\ c_pc' = "aexit"
    /\ c_how' = how
    /\ c_exc' = exc
    /\ c_cur' = None
    /\ c_inflight' = 0
    /\ c_hframe' = 0

\* start() is called: logs 'Connecting to ...', calls session.ws_connect and
\* awaits it.  It is called once, in a process that serves no connections.
ClientStart ==
    /\ c_pc = "idle"
    /\ \A c \in Conns : pc[c] = "idle"
    /\ c_pc' = "connecting"
    /\ log' = LogCall(Client, "info", "Connecting")
    /\ rx' = <<>>
    /\ UNCHANGED <<regvars, svars, c_ws, c_wsClosed, c_sessClosed, c_exc, c_cur,
                   c_nframes, c_cleanup, c_discarg, c_onconn, c_ndisp, c_inflight,
                   c_hframe, c_how, c_warned, c_result>>

\* The connection is established: self.ws = ws, on_connect(ws) is called.
ClientConnected ==
    /\ c_pc = "connecting"
    /\ c_ws' = "ws"
    /\ c_onconn' = c_onconn + 1
    /\ c_pc' = "on_connect"
    /\ log' = <<>>
    /\ rx' = <<>>
    /\ UNCHANGED <<regvars, svars, c_wsClosed, c_sessClosed, c_exc, c_cur,
                   c_nframes, c_cleanup, c_discarg, c_ndisp, c_inflight,
                   c_hframe, c_how, c_warned, c_result>>

\* ws_connect raises (the URL is unreachable, the handshake fails): no
\* connection exists, the except clause does not match, the finally block runs.
ClientConnectFail ==
    /\ c_pc = "connecting"
    /\ c_how' = "connect_error"
    /\ ClientExceptFinally("ClientError")
    /\ rx' = <<>>
    /\ UNCHANGED <<regvars, svars, c_ws, c_wsClosed, c_sessClosed, c_cur,
                   c_nframes, c_discarg, c_onconn, c_ndisp, c_inflight,
                   c_hframe, c_result>>

\* The task is cancelled while it awaits ws_connect.
ClientConnectCancel ==
    /\ c_pc = "connecting"
    /\ c_how' = "cancelled"
    /\ ClientExceptFinally("CancelledError")
    /\ rx' = <<>>
    /\ UNCHANGED <<regvars, svars, c_ws, c_wsClosed, c_sessClosed, c_cur,
                   c_nframes, c_discarg, c_onconn, c_ndisp, c_inflight,
                   c_hframe, c_result>>

\* The task is cancelled while it awaits on_connect, a frame or a handler.
ClientCancel ==
    /\ c_pc \in {"on_connect", "recv", "handler"}
    /\ ClientLeaveBlock("cancelled", "CancelledError")
    /\ log' = <<>>
    /\ rx' = <<>>
    /\ UNCHANGED <<regvars, svars, c_ws, c_wsClosed, c_sessClosed,
                   c_nframes, c_cleanup, c_discarg, c_onconn, c_ndisp,
                   c_warned, c_result>>

\* on_connect returns: the loop awaits the first frame.
ClientOnConnectReturn ==
    /\ c_pc = "on_connect"
    /\ c_pc' = "recv"
    /\ log' = <<>>
    /\ rx' = <<>>
    /\ UNCHANGED <<regvars, svars, c_ws, c_wsClosed, c_sessClosed, c_exc, c_cur,
                   c_nframes, c_cleanup, c_discarg, c_onconn, c_ndisp, c_inflight,
                   c_hframe, c_how, c_warned, c_result>>

\* on_connect raises.
ClientOnConnectRaise ==
    /\ c_pc = "on_connect"
    /\ ClientLeaveBlock("error", "Exception")
    /\ log' = <<>>
    /\ rx' = <<>>
    /\ UNCHANGED <<regvars, svars, c_ws, c_wsClosed, c_sessClosed,
                   c_nframes, c_cleanup, c_discarg, c_onconn, c_ndisp,
                   c_warned, c_result>>

\* Whether the loop of start() is at `async for message in ws`.
ClientAwaitsFrame == c_pc = "recv"

\* The stream ends: the loop and the async-with block are left normally.
ClientRecvEnd ==
    /\ ClientAwaitsFrame
    /\ ClientLeaveBlock("end", None)
    /\ log' = <<>>
    /\ rx' = Rx(Client, "CLOSE", "")
    /\ UNCHANGED <<regvars, svars, c_ws, c_wsClosed, c_sessClosed,
                   c_nframes, c_cleanup, c_discarg, c_onconn, c_ndisp,
                   c_warned, c_result>>

\* A frame json.loads(message.data) or data.get raises on: a text that is no
\* JSON object, or a frame of type ERROR, whose data is no text (the client's
\* loop does not look at message.type).
ClientRecvBad ==
    /\ ClientAwaitsFrame
    /\ c_nframes < MaxClientFrames
    /\ \/ \E p \in Payloads :
              /\ Dispatch(p).kind = "raise"
              /\ rx' = Rx(Client, "TEXT", p)
       \/ rx' = Rx(Client, "ERROR", "")
    /\ c_nframes' = c_nframes + 1
    /\ ClientLeaveBlock("error", "Exception")
    /\ log' = <<>>
    /\ UNCHANGED <<regvars, svars, c_ws, c_wsClosed, c_sessClosed,
                   c_cleanup, c_discarg, c_onconn, c_ndisp, c_warned, c_result>>

\* A text frame with an unknown command: handle_data logs the error and
\* returns None, the loop goes on.
ClientRecvUnknown ==
    /\ ClientAwaitsFrame
    /\ c_nframes < MaxClientFrames
    /\ \E p \in Payloads :
           /\ Dispatch(p).kind = "unknown"
           /\ rx' = Rx(Client, "TEXT", p)
    /\ c_nframes' = c_nframes + 1
    /\ c_ndisp' = c_ndisp + 1
    /\ log' = LogCall(Client, "error", "unknown command")
    /\ UNCHANGED <<regvars, svars, c_pc, c_ws, c_wsClosed, c_sessClosed, c_exc,
                   c_cur, c_cleanup, c_discarg, c_onconn, c_inflight, c_hframe,
                   c_how, c_warned, c_result>>

\* A text frame with a registered command: handle_data logs, calls the handler
\* and awaits it.
ClientRecvCall ==
    /\ ClientAwaitsFrame
    /\ c_nframes < MaxClientFrames
    /\ \E p \in Payloads :
           /\ Dispatch(p).kind = "call"
           /\ c_cur' = Dispatch(p).handler
           /\ rx' = Rx(Client, "TEXT", p)
    /\ c_nframes' = c_nframes + 1
    /\ c_ndisp' = c_ndisp + 1
    /\ c_inflight' = c_inflight + 1
    /\ c_hframe' = c_nframes + 1
    /\ c_pc' = "handler"
    /\ log' = LogCall(Client, "info", "handle")
    /\ UNCHANGED <<regvars, svars, c_ws, c_wsClosed, c_sessClosed, c_exc,
                   c_cleanup, c_discarg, c_onconn, c_how, c_warned, c_result>>

\* The handler returns; start() drops the value and awaits the next frame.
ClientHandlerReturn ==
    /\ c_pc = "handler"
    /\ c_cur # "h_boom"
    /\ c_pc' = "recv"
    /\ c_cur' = None
    /\ c_inflight' = c_inflight - 1
    /\ c_hframe' = 0
    /\ log' = <<>>
    /\ rx' = <<>>
    /\ UNCHANGED <<regvars, svars, c_ws, c_wsClosed, c_sessClosed, c_exc,
                   c_nframes, c_cleanup, c_discarg, c_onconn, c_ndisp,
                   c_how, c_warned, c_result>>

\* The handler raises.
ClientHandlerRaise ==
    /\ c_pc = "handler"
    /\ c_cur = "h_boom"
    /\ ClientLeaveBlock("error", "Exception")
    /\ log' = <<>>
    /\ rx' = <<>>
    /\ UNCHANGED <<regvars, svars, c_ws, c_wsClosed, c_sessClosed,
                   c_nframes, c_cleanup, c_discarg, c_onconn, c_ndisp,
                   c_warned, c_result>>

\* The context manager has closed the connection: the except clause and the
\* finally block run.
ClientAExitDone ==
    /\ c_pc = "aexit"
    /\ c_wsClosed' = TRUE
    /\ ClientExceptFinally(c_exc)
    /\ rx' = <<>>
    /\ UNCHANGED <<regvars, svars, c_ws, c_sessClosed, c_cur, c_nframes,
                   c_discarg, c_onconn, c_ndisp, c_inflight, c_hframe, c_how,
                   c_result>>

\* `await self.ws.close()` completes: `await self.session.close()` is next.
ClientWsCloseDone ==
    /\ c_pc = "ws_close"
    /\ c_wsClosed' = TRUE
    /\ c_cleanup' = Append(c_cleanup, "session_close")
    /\ c_pc' = "session_close"
    /\ log' = <<>>
    /\ rx' = <<>>
    /\ UNCHANGED <<regvars, svars, c_ws, c_sessClosed, c_exc, c_cur, c_nframes,
                   c_discarg, c_onconn, c_ndisp, c_inflight, c_hframe, c_how,
                   c_warned, c_result>>

\* `await self.session.close()` completes: on_disconnect(None) is called, the
\* last statement; start() then returns, or raises the exception left over.
ClientSessionCloseDone ==
    /\ c_pc = "session_close"
    /\ c_sessClosed' = TRUE
    /\ c_cleanup' = Append(c_cleanup, "on_disconnect")
    /\ c_discarg' = NoOutcome
    /\ c_pc' = "done"
    /\ c_result' = IF c_exc = None THEN "returned" ELSE "raised"
    /\ log' = <<>>
    /\ rx' = <<>>
    /\ UNCHANGED <<regvars, svars, c_ws, c_wsClosed, c_exc, c_cur, c_nframes,
                   c_onconn, c_ndisp, c_inflight, c_hframe, c_how, c_warned>>

\* ------------------------------------------------------------ registration
\* Decorators run while the module is loaded, before any handle() or start().
AtProgramStart == c_pc = "idle" /\ \A c \in Conns : pc[c] = "idle"

\* data_handler(name_or_func) decorates f: handler[key] = f.
Register(name_or_func, f) ==
    /\ data_handler' = DictSet(data_handler, RegKey(name_or_func, f), f)
    /\ regs' = Append(regs, [name_or_func |-> name_or_func, f |-> f])

\* `@handler` applied bare: name_or_func is the decorated function.
RegisterFunc(f) ==
    /\ AtProgramStart
    /\ Len(regs) < MaxRegs
    /\ Register(FuncArg(f), f)
    /\ log' = <<>>
    /\ rx' = <<>>
    /\ UNCHANGED <<svars, cvars>>

\* `@handler(name)`: the decorator made for the name is applied to f.
RegisterNamed(name, f) ==
    /\ AtProgramStart
    /\ Len(regs) < MaxRegs
    /\ Register(StrArg(name), f)
    /\ log' = <<>>
    /\ rx' = <<>>
    /\ UNCHANGED <<svars, cvars>>

\* ------------------------------------------------------------------- Next
\* A process runs one of the two lifecycle managers: the server (handle() tasks
\* for the connections it is handed) or the client (one start() task).
Next ==
    \/ \E c \in Conns : Accept(c)
    \/ \E c \in Conns : OnConnectReturn(c)
    \/ \E c \in Conns : OnConnectRaise(c)
    \/ \E c \in Conns : Drop(c)
    \/ \E c \in Conns : RecvEnd(c)
    \/ \E c \in Conns : RecvError(c)
    \/ \E c \in Conns : RecvBadText(c)
    \/ \E c \in Conns : RecvUnknown(c)
    \/ \E c \in Conns : RecvCall(c)
    \/ \E c \in Conns : HandlerReturn(c)
    \/ \E c \in Conns : HandlerRaise(c)
    \/ \E c \in Conns : RecvBroadcast(c)
    \/ \E c \in Conns : BroadcastSendOk(c)
    \/ \E c \in Conns : BroadcastSendFail(c)
    \/ \E c \in Conns : CloseDone(c)
    \/ ClientStart
    \/ ClientConnected
    \/ ClientConnectFail
    \/ ClientConnectCancel
    \/ ClientCancel
    \/ ClientOnConnectReturn
    \/ ClientOnConnectRaise
    \/ ClientRecvEnd
    \/ ClientRecvBad
    \/ ClientRecvUnknown
    \/ ClientRecvCall
    \/ ClientHandlerReturn
    \/ ClientHandlerRaise
    \/ ClientAExitDone
    \/ ClientWsCloseDone
    \/ ClientSessionCloseDone

Spec == Init /\ [][Next]_vars

\* A client program from its first decorator on: registrations, then start().
RegNext ==
    \/ \E f \in Funcs : RegisterFunc(f)
    \/ \E name \in Names, f \in Funcs : RegisterNamed(name, f)
    \/ ClientStart
    \/ ClientConnected
    \/ ClientConnectFail
    \/ ClientConnectCancel
    \/ ClientCancel
    \/ ClientOnConnectReturn
    \/ ClientOnConnectRaise
    \/ ClientRecvEnd
    \/ ClientRecvBad
    \/ ClientRecvUnknown
    \/ ClientRecvCall
    \/ ClientHandlerReturn
    \/ ClientHandlerRaise
    \/ ClientAExitDone
    \/ ClientWsCloseDone
    \/ ClientSessionCloseDone

RegSpec == RegInit /\ [][RegNext]_vars

\* ================================================================ properties
Active == {"on_connect", "recv", "handler", "broadcast"}

Occurrences(list, x) == Cardinality({i \in 1..Len(list) : list[i] = x})

\* The last step took from `who` a text frame holding a JSON object whose
\* command-key value is absent or is no key of the registry.
UnknownText(who) ==
    /\ rx # <<>>
    /\ rx[1].who = who
    /\ rx[1].type = "TEXT"
    /\ json_loads(rx[1].data).isdict
    /\ DictGet(json_loads(rx[1].data).obj, command_key) \notin DOMAIN data_handler

\* C1: server teardown.  On every exit path of handle(ws) the finally block
\* runs these steps in this order and no others: ws is removed from the active
\* set, ws is closed if it was not closed, on_disconnect is invoked with the
\* retained last outcome; before the try block is left none of them has run.
C1_ServerTeardown ==
    \A c \in Conns :
        /\ pc[c] \in Active \cup {"idle"} => td[c] = <<>>
        /\ pc[c] = "close" =>
               /\ td[c] = <<"remove", "close">>
               /\ ~InList(websockets, c)
        /\ pc[c] = "done" =>
               /\ td[c] \in {<<"remove", "close", "on_disconnect">>,
                             <<"remove", "on_disconnect">>}
               /\ ~InList(websockets, c)
               /\ closed[c]
               /\ disc_arg[c] = ws_data[c]

\* handle() was left by an exception with an outcome retained, and all three
\* steps have run.
C1_Witness ==
    \E c \in Conns :
        /\ pc[c] = "done"
        /\ raised[c]
        /\ td[c] = <<"remove", "close", "on_disconnect">>
        /\ disc_arg[c] # NoOutcome

\* C2: client cleanup.  On every exit path of start() the finally block runs
\* once, in this order: the connection is closed if one was stored, the
\* session is closed, on_disconnect(None) is invoked; start() ends only after
\* that, and nothing of it runs before the try block is left.
C2_ClientCleanup ==
    /\ c_pc \in {"idle", "connecting", "on_connect", "recv", "handler", "aexit"} =>
           c_cleanup = <<>>
    /\ c_pc = "ws_close" => c_cleanup = <<"ws_close">> /\ c_ws # None
    /\ c_pc = "session_close" =>
           c_cleanup = IF c_ws # None THEN <<"ws_close", "session_close">>
                       ELSE <<"session_close">>
    /\ c_pc = "done" =>
           /\ c_cleanup = IF c_ws # None
                            THEN <<"ws_close", "session_close", "on_disconnect">>
                            ELSE <<"session_close", "on_disconnect">>
           /\ c_ws # None => c_wsClosed
           /\ c_sessClosed
           /\ c_discarg = NoOutcome
    /\ c_result # "none" => c_pc = "done"

\* start() was left by an unhandled error of a handler and the whole cleanup
\* has run.
C2_Witness ==
    /\ c_pc = "done"
    /\ c_how = "error"
    /\ c_ndisp > 0
    /\ c_result = "raised"
    /\ c_cleanup = <<"ws_close", "session_close", "on_disconnect">>

\* C3: a broadcast that has ended, by returning or by raising, has attempted a
\* send to every connection that was in the active set and not closed when it
\* was called.
C3_BroadcastAllAttempted ==
    \A c \in Conns :
        bstate[c] \in {"returned", "raised"} =>
            \A w \in bopen[c] : InList(bsent[c], w)

\* C4: a connection is in the active set exactly once while its handle() is
\* between the append and the finally block, and not at all before or after;
\* the finally block has removed it exactly once.
C4_ActiveSetOnce ==
    /\ \A c \in Conns :
           /\ Occurrences(websockets, c) = IF pc[c] \in Active THEN 1 ELSE 0
           /\ pc[c] \in {"close", "done"} => Occurrences(td[c], "remove") = 1
    /\ Len(websockets) = Cardinality({c \in Conns : pc[c] \in Active})

\* A connection has left the set that held it together with another
\* connection, which is still in it.
C4_Witness ==
    \E c, d \in Conns :
        /\ pc[c] = "done"
        /\ pc[d] \in Active
        /\ bsnap[d] = <<c, d>>
        /\ websockets = <<d>>

C6_SequentialDispatch ==
    /\ \A c \in Conns :
           /\ inflight[c] \in {0, 1}
           /\ inflight[c] = 1 <=> pc[c] \in {"handler", "broadcast"}
           /\ hframe[c] = IF inflight[c] = 1 THEN frameno[c] ELSE 0
    /\ c_inflight \in {0, 1}
    /\ c_inflight = 1 <=> c_pc = "handler"
    /\ c_hframe = IF c_inflight = 1 THEN c_nframes ELSE 0

\* Two connections each have a handler in progress, one of them suspended in
\* a broadcast.
C6_Witness ==
    \E c, d \in Conns :
        /\ c # d
        /\ inflight[c] = 1
        /\ pc[c] = "handler"
        /\ pc[d] = "broadcast"

\* C7: a cancellation delivered while start() connects, runs on_connect or is
\* in the receive loop is caught and logged as one warning; the cleanup runs
\* and start() returns without raising.
C7_ClientCancellation ==
    c_how = "cancelled" =>
        /\ c_pc # "aexit" => c_exc = None /\ c_warned = 1
        /\ c_pc \in {"aexit", "ws_close", "session_close", "done"}
        /\ c_pc = "done" =>
               /\ c_result = "returned"
               /\ c_sessClosed
               /\ Len(c_cleanup) >= 2
               /\ c_cleanup[Len(c_cleanup)] = "on_disconnect"

\* start() was cancelled after it had dispatched a frame, and has returned.
C7_Witness ==
    /\ c_how = "cancelled"
    /\ c_pc = "done"
    /\ c_ws # None
    /\ c_ndisp > 0

\* C8: broadcast echo.  When the handler that broadcasts returns, and the
\* active set held exactly two connections, both not closed, when it was
\* called and still holds them, not closed, then a send was made to both of
\* them, the sender included.
C8_BroadcastEcho ==
    \A c \in Conns :
        ( /\ bstate[c] = "returned"
          /\ Len(bsnap[c]) = 2
          /\ Cardinality(bopen[c]) = 2
          /\ websockets = bsnap[c]
          /\ \A w \in bopen[c] : ~closed[w] )
        => /\ c \in bopen[c]
           /\ \A w \in bopen[c] : InList(bsent[c], w)

\* The handler of one of two connected clients has returned from its
\* broadcast with both sends made.
C8_Witness ==
    \E c \in Conns :
        /\ bstate[c] = "returned"
        /\ pc[c] = "recv"
        /\ Len(bsnap[c]) = 2
        /\ websockets = bsnap[c]
        /\ \A w \in bopen[c] : ~closed[w]
        /\ Len(bsent[c]) = 2
        /\ bsent[c] = bsnap[c]

\* C9: on the server a text frame with an unknown command leaves the loop
\* running: no handler is invoked, one error is logged, the connection is
\* still open and in the active set, and the loop awaits the next frame, which
\* it can dispatch.
C9_UnknownKeepsLoop ==
    \A c \in Conns :
        UnknownText(c) =>
            /\ pc[c] = "recv"
            /\ Occurrences(websockets, c) = 1
            /\ ~closed[c]
            /\ inflight[c] = 0
            /\ Len(log) = 1
            /\ log[1].level = "error"
            /\ nframes < MaxFrames => ENABLED RecvCall(c)

\* An unregistered type was received and a further frame can still arrive.
C9_Witness ==
    \E c \in Conns :
        /\ UnknownText(c)
        /\ rx[1].data = P_nohandler
        /\ nframes < MaxFrames

\* C10: when ws_connect fails, no connection is stored, on_connect is not
\* invoked and nothing is dispatched, and the cleanup closes the session and
\* invokes on_disconnect(None).
C10_ConnectFailure ==
    c_how = "connect_error" =>
        /\ c_ws = None
        /\ c_onconn = 0
        /\ c_ndisp = 0
        /\ c_nframes = 0
        /\ c_pc \in {"session_close", "done"}
        /\ c_pc = "done" =>
               /\ c_sessClosed
               /\ c_cleanup = <<"session_close", "on_disconnect">>
               /\ c_discarg = NoOutcome

\* start() has ended after a failed connect.
C10_Witness ==
    /\ c_how = "connect_error"
    /\ c_pc = "done"
    /\ c_result = "raised"

\* The key a registration is to be filed under: the explicit name when one
\* was given, else the function's own name.
ExpectedKey(r) ==
    IF r.name_or_func.isstr THEN r.name_or_func.val ELSE FuncName(r.f)

\* The positions in regs of the registrations filed under key x.
RegsFor(x) == {i \in 1..Len(regs) : ExpectedKey(regs[i]) = x}

Last(S) == CHOOSE i \in S : \A j \in S : j <= i

\* The last step took from the client's connection a text frame holding a JSON
\* object, and start() is now awaiting the handler dispatched for it.
ClientDispatched ==
    /\ c_pc = "handler"
    /\ rx # <<>>
    /\ rx[1].who = Client
    /\ rx[1].type = "TEXT"
    /\ json_loads(rx[1].data).isdict

\* C11: last registration wins.  After any sequence of registrations the
\* registry binds each key to the function most recently registered under
\* it, and dispatching a message of type x invokes that function, once, and
\* no function registered under x earlier.
C11_LastRegistrationWins ==
    /\ \A x \in DOMAIN data_handler :
           /\ RegsFor(x) # {}
           /\ data_handler[x] = regs[Last(RegsFor(x))].f
    /\ \A i \in 1..Len(regs) : ExpectedKey(regs[i]) \in DOMAIN data_handler
    /\ ClientDispatched =>
           LET x == DictGet(json_loads(rx[1].data).obj, command_key)
           IN  /\ RegsFor(x) # {}
               /\ c_cur = regs[Last(RegsFor(x))].f
               /\ c_inflight = 1

\* A key was registered twice with different functions and a message of that
\* type has been dispatched to the second.
C11_Witness ==
    /\ ClientDispatched
    /\ Len(regs) = 2
    /\ ExpectedKey(regs[1]) = ExpectedKey(regs[2])
    /\ regs[1].f # regs[2].f
    /\ DictGet(json_loads(rx[1].data).obj, command_key) = ExpectedKey(regs[2])
    /\ c_cur = regs[2].f

\* C12: the key of a registration.  A registration with an explicit name
\* writes the registry under that name whatever the function is called; one
\* without writes it under the function's own name.  Either way exactly that
\* one key is written and every other entry keeps its binding, and the
\* registry changes in no other step.
C12_RegistrationKey ==
    [][/\ regs' # regs =>
            LET r == regs'[Len(regs')]
                k == ExpectedKey(r)
            IN  /\ regs' = Append(regs, r)
                /\ DOMAIN data_handler' = DOMAIN data_handler \cup {k}
                /\ data_handler'[k] = r.f
                /\ \A x \in DOMAIN data_handler \ {k} :
                       data_handler'[x] = data_handler[x]
       /\ data_handler' # data_handler => regs' # regs]_vars

\* A function was registered under its own name, then another under an
\* explicit name that is not its own: both bindings stand.
C12_Witness ==
    /\ Len(regs) = 2
    /\ ~regs[1].name_or_func.isstr
    /\ regs[2].name_or_func.isstr
    /\ regs[2].name_or_func.val # FuncName(regs[2].f)
    /\ regs[2].name_or_func.val # FuncName(regs[1].f)
    /\ data_handler[FuncName(regs[1].f)] = regs[1].f
    /\ data_handler[regs[2].name_or_func.val] = regs[2].f
    /\ Cardinality(DOMAIN data_handler) = 2

\* C13: broadcast on a snapshot.  A broadcast that has returned has sent to
\* every connection that was in the active set and open when it was called
\* and is in the set and open still, and to no connection that was not in
\* the set when it was called, whatever accepts and teardowns ran while it
\* was suspended on a send.
C13_BroadcastSnapshot ==
    \A c \in Conns :
        bstate[c] = "returned" =>
            /\ \A w \in bopen[c] :
                   (InList(websockets, w) /\ ~closed[w]) => InList(bsent[c], w)
            /\ \A i \in 1..Len(bsent[c]) : InList(bsnap[c], bsent[c][i])

\* The last step took from `who` a text frame whose payload does not decode
\* to a JSON object.
BadText(who) ==
    /\ rx # <<>>
    /\ rx[1].who = who
    /\ rx[1].type = "TEXT"
    /\ ~(json_loads(rx[1].data).ok /\ json_loads(rx[1].data).isdict)

\* C14: a bad frame is absorbed.  A text frame that does not decode to a JSON
\* object does not end the receive loop and does not close the connection:
\* after it the loop awaits the next frame, on the server with the connection
\* still in the active set and no teardown step run, on the client with the
\* async-with block not left.
C14_BadFrameAbsorbed ==
    /\ \A c \in Conns :
           BadText(c) =>
               /\ pc[c] = "recv"
               /\ InList(websockets, c)
               /\ ~closed[c]
               /\ td[c] = <<>>
    /\ BadText(Client) =>
           /\ c_pc = "recv"
           /\ ~c_wsClosed
           /\ c_how = "none"

\* The `async for` of handle(ws) is running: it awaits a frame or a handler
\* it dispatched.
LoopRunning(c) == pc[c] \in {"recv", "handler", "broadcast"}

\* C15 as stated: in every reachable server state a connection is in the
\* active set if and only if its receive loop is running.
C15_InSetIffLoopRunning ==
    \A c \in Conns : InList(websockets, c) <=> LoopRunning(c)

\* C15, amended: a connection is in the active set if and only if its
\* on_connect hook is running or its receive loop is running.  It is added
\* before on_connect is invoked, ahead of the loop, and is out of the set as
\* soon as the loop has ended or an exception has left the try block.
C15_ActiveSetInvariant ==
    \A c \in Conns :
        /\ InList(websockets, c) <=> (pc[c] = "on_connect" \/ LoopRunning(c))
        /\ onconn[c] = 0 => ~InList(websockets, c)
        /\ (raised[c] \/ td[c] # <<>>) => ~InList(websockets, c)

\* One connection is in the set with its on_connect hook running and its loop
\* not begun, while another, whose loop ended on an error, is out of it and
\* awaits its close.
C15_Witness ==
    \E c, d \in Conns :
        /\ pc[c] = "on_connect"
        /\ InList(websockets, c)
        /\ frameno[d] > 0
        /\ raised[d]
        /\ pc[d] = "close"
        /\ ~InList(websockets, d)

\* The last step took a frame of type ERROR from connection c.
ErrorFrame(c) ==
    /\ rx # <<>>
    /\ rx[1].who = c
    /\ rx[1].type = "ERROR"

\* The outcome of connection c's frame k, no outcome for k = 0.
OutcomeOf(c, k) == IF k = 0 THEN NoOutcome ELSE [conn |-> c, frame |-> k]

\* C16: on the server a frame of type ERROR is logged, once and at error
\* level, and does not end the loop: no handler is invoked for it, no
\* teardown step runs, the connection stays in the active set, the retained
\* outcome is the one retained before the frame, and the loop awaits the next
\* frame.  A frame on which the loop is left with no exception raised is the
\* end of the stream.
C16_ErrorFrameKeepsLoop ==
    \A c \in Conns :
      /\ (rx # <<>> /\ rx[1].who = c /\ pc[c] \in {"close", "done"} /\ ~raised[c])
             => rx[1].type = "CLOSE"
      /\ ErrorFrame(c) =>
            /\ log = <<[who |-> c, level |-> "error",
                        msg |-> "WS connection closed with exception"]>>
            /\ pc[c] = "recv"
            /\ InList(websockets, c)
            /\ ~closed[c]
            /\ td[c] = <<>>
            /\ ~raised[c]
            /\ inflight[c] = 0
            /\ cur[c] = None
            /\ lastres[c] < frameno[c]
            /\ ws_data[c] = OutcomeOf(c, lastres[c])

\* An ERROR frame has followed a frame whose outcome the connection retains.
C16_Witness ==
    \E c \in Conns :
        /\ ErrorFrame(c)
        /\ frameno[c] = 2
        /\ ws_data[c] = [conn |-> c, frame |-> 1]
        /\ pc[c] = "recv"

\* C17: the value given to on_disconnect.  The outcome a connection retains
\* is at every moment that of its most recent dispatch that returned a
\* non-empty outcome, None if there was none: a dispatch that returns None
\* (an unknown command, a handler without a result) leaves it as it was.
\* on_disconnect is invoked with that value.
C17_LastOutcome ==
    \A c \in Conns :
        /\ ws_data[c] = OutcomeOf(c, lastres[c])
        /\ lastres[c] <= frameno[c]
        /\ InList(td[c], "on_disconnect") =>
               disc_arg[c] = OutcomeOf(c, lastres[c])

\* on_disconnect received the outcome of the connection's first frame after a
\* second frame was processed without an exception and left no outcome.
C17_Witness ==
    \E c \in Conns :
        /\ InList(td[c], "on_disconnect")
        /\ ~raised[c]
        /\ frameno[c] = 2
        /\ disc_arg[c] = [conn |-> c, frame |-> 1]

\* C20: last-outcome isolation.  With the loops of several connections
\* interleaving, the outcome a connection retains, and the one its
\* on_disconnect is invoked with, is None or an outcome computed for a frame
\* of that same connection.
C20_OutcomeIsolation ==
    \A c \in Conns :
        /\ ws_data[c].conn \in {0, c}
        /\ ws_data[c].frame <= frameno[c]
        /\ InList(td[c], "on_disconnect") =>
               /\ disc_arg[c].conn \in {0, c}
               /\ disc_arg[c].frame <= frameno[c]

\* Two connections were served side by side, each retained an outcome of its
\* own, and one of them has been torn down with it.
C20_Witness ==
    \E c, d \in Conns :
        /\ c # d
        /\ InList(td[c], "on_disconnect")
        /\ disc_arg[c] = [conn |-> c, frame |-> 1]
        /\ ws_data[d] = [conn |-> d, frame |-> 1]
        /\ pc[d] \in Active

\* C18: broadcast leaves the active set alone.  A step in which a broadcast
\* starts, or goes on after a send has completed, changes neither the list nor
\* any connection's closed flag; every entry it passes over is closed and
\* stays in the list, the entry it sends to is not closed, and it sends to no
\* other.
C18_BroadcastKeepsSet ==
    [][\A c \in Conns :
          LET started == bstate[c] # "running" /\ bstate'[c] = "running"
              resumed == /\ bstate[c] = "running"
                         /\ bstate'[c] \in {"running", "returned"}
                         /\ bidx'[c] # bidx[c]
              first == IF started THEN 1 ELSE bidx[c] + 1
              next == IF bstate'[c] = "running" THEN bidx'[c]
                      ELSE Len(websockets) + 1
              sent == IF started THEN <<>> ELSE bsent[c]
          IN  (started \/ resumed) =>
                  /\ websockets' = websockets
                  /\ closed' = closed
                  /\ \A k \in first..(next - 1) : closed[websockets[k]]
                  /\ bstate'[c] = "running" =>
                         /\ ~closed[websockets[next]]
                         /\ bsent'[c] = Append(sent, websockets[next])
                  /\ bstate'[c] = "returned" => bsent'[c] = sent]_vars

\* A broadcast has passed over a connection that was closed when its turn
\* came, and has sent to another: the closed one is in the list still.
C18_Witness ==
    \E c, w \in Conns :
        /\ bstate[c] \in {"running", "returned"}
        /\ InList(bsnap[c], w)
        /\ w \notin bopen[c]
        /\ ~InList(bsent[c], w)
        /\ bsent[c] # <<>>
        /\ closed[w]
        /\ InList(websockets, w)

\* C19: hook ordering.  Server: on_connect is invoked once per handle(ws),
\* when ws has been added to the active set, and no frame of ws is taken and
\* no handler invoked before it has returned; on_disconnect is invoked once,
\* as the last step of handle(ws), when no handler of ws is running and none
\* can start.  Client: on_connect is invoked at most once per start() and
\* before any dispatch; on_disconnect is invoked once, as the last step,
\* after every dispatch.
C19_HookOrdering ==
    /\ \A c \in Conns :
           /\ onconn[c] = IF pc[c] = "idle" THEN 0 ELSE 1
           /\ pc[c] = "on_connect" =>
                  /\ InList(websockets, c)
                  /\ frameno[c] = 0
                  /\ inflight[c] = 0
                  /\ lastres[c] = 0
           /\ (frameno[c] > 0 \/ inflight[c] > 0) =>
                  /\ onconn[c] = 1
                  /\ pc[c] # "on_connect"
           /\ Occurrences(td[c], "on_disconnect") = IF pc[c] = "done" THEN 1 ELSE 0
           /\ InList(td[c], "on_disconnect") =>
                  /\ td[c][Len(td[c])] = "on_disconnect"
                  /\ inflight[c] = 0
                  /\ cur[c] = None
    /\ c_onconn <= 1
    /\ c_pc = "on_connect" => (c_onconn = 1 /\ c_ndisp = 0 /\ c_nframes = 0)
    /\ c_ndisp > 0 => (c_onconn = 1 /\ c_pc # "on_connect")
    /\ Occurrences(c_cleanup, "on_disconnect") = IF c_pc = "done" THEN 1 ELSE 0
    /\ InList(c_cleanup, "on_disconnect") =>
           /\ c_cleanup[Len(c_cleanup)] = "on_disconnect"
           /\ c_inflight = 0
           /\ c_cur = None

\* A handle(ws) has run to its end: on_connect once, a handler that returned
\* an outcome, on_disconnect once, while another connection is being served.
C19_Witness ==
    \E c, d \in Conns :
        /\ pc[c] = "done"
        /\ onconn[c] = 1
        /\ lastres[c] >= 1
        /\ Occurrences(td[c], "on_disconnect") = 1
        /\ pc[d] = "on_connect"

====
